---- MODULE Spec2Model ----
(***************************************************************************)
(* The wallet-authenticated discovery flow of                              *)
(* src/components/dataViews/ListUserMultisigs.tsx.                         *)
(*                                                                         *)
(* The component's React state (loading, walletInfo, showBelonged,         *)
(* multisigs), the window listener installed by its layout effect, and     *)
(* every invocation of connectWallet with the external call it is          *)
(* suspended at.  An invocation is an async function: it runs from one     *)
(* await to the next without interleaving, so each action below is one     *)
(* continuation (the completion of the awaited call, the code up to the    *)
(* next await, and the render that commits the state it set).              *)
(***************************************************************************)
EXTENDS Integers, Sequences, FiniteSets, TLC

\* ---------------------------------------------------------------- bounds
MaxInv == 2       \* invocations of connectWallet in one behaviour
MaxEvents == 1    \* keplr_keystorechange notifications dispatched
MaxList == 1      \* entries in one list of the backend's response

\* ------------------------------------------------------------ data model
\* An optional value (T | null): the empty sequence is null.
Null == <<>>

Some(x) == <<x>>

\* The accounts of the agent's keystore; getKey hands out the address of
\* the selected one.
Addrs == {"cosmos1a", "cosmos1b"}

\* The agent's public key bytes for an address.
PubKeyArrayOf(address) == IF address = "cosmos1a" THEN <<2, 161>> ELSE <<3, 178>>

\* toBase64 of @cosmjs/encoding: the text encoding of the bytes (kept
\* apart from the bytes themselves).
toBase64(bytes) == [base64 |-> bytes]

\* pubkeyJSON texts, as token sequences: "{" threshold members "}".
\* The first is a 1-of-2 key; the second is cut off before the closing
\* brace.
PubkeyJSONs == { <<"{", "1", "2", "}">>, <<"{", "2", "1">> }

DigitVal(d) == IF d = "1" THEN 1 ELSE 2

\* JSON.parse of a pubkeyJSON: the parsed value, or Null for a SyntaxError.
JSONparse(s) ==
    IF Len(s) = 4 /\ s[1] = "{" /\ s[4] = "}" /\ s[2] \in {"1", "2"} /\ s[3] \in {"1", "2"}
    THEN Some([threshold |-> DigitVal(s[2]), pubkeys |-> DigitVal(s[3])])
    ELSE Null

\* MultisigFromQuery rows the backend may return.
MultisigFromQuery == { [address |-> "multisig", pubkeyJSON |-> p] : p \in PubkeyJSONs }

Lists == UNION { [1..n -> MultisigFromQuery] : n \in 0..MaxList }

\* type FetchedMultisigs
FetchedMultisigs == [created : Lists, belonged : Lists]

\* The external calls of one invocation, in program order.
CallOrder == <<"enable", "getKey", "connect", "getAccount", "nonce", "signAmino", "list">>

Calls == { CallOrder[k] : k \in 1..Len(CallOrder) }

\* The calls awaited inside connectWallet's own try block, before
\* fetchMultisigs is entered.
ConnectCalls == {"enable", "getKey"}

\* The calls awaited inside getSignature.
SignCalls == {"connect", "getAccount", "nonce", "signAmino"}

\* The calls awaited inside fetchMultisigs' try block.
FetchCalls == {"connect", "getAccount", "nonce", "signAmino", "list"}

\* The error a failing call rejects with.
ErrorOf(call) ==
    IF call \in {"enable", "getKey", "signAmino"} THEN "Rejected" ELSE "NetworkError"

\* -------------------------------------------------------------- state
VARIABLES
    loading,        \* useState(false)
    walletInfo,     \* useState(null): Null or Some([address, pubKey])
    showBelonged,   \* useState(false)
    multisigs,      \* useState(null): Null or Some(FetchedMultisigs)
    listener,       \* registrations of connectWallet for keplr_keystorechange
    mounted,        \* the component has not been discarded
    defaultOptions, \* window.keplr.defaultOptions has been assigned
    keplrAccount,   \* the account selected in the agent
    invs,           \* the invocations of connectWallet, oldest first
    nonces,         \* nonces the backend has issued
    events,         \* keplr_keystorechange notifications dispatched
    writer          \* the invocation whose setMultisigs was applied last (0: none)

vars == <<loading, walletInfo, showBelonged, multisigs, listener, mounted,
          defaultOptions, keplrAccount, invs, nonces, events, writer>>

\* An invocation that has just been entered: locals unset, nothing traced.
NewInvocation(trigger) ==
    [ pc |-> "enable",          \* the call awaited, or "done"
      trigger |-> trigger,      \* "click" or "event"
      address |-> "",           \* bech32Address from getKey
      accountOnChain |-> "",    \* accountOnChain.address
      nonce |-> 0,              \* nonce from the backend
      signature |-> Null,       \* signature from signAmino
      sent |-> Null,            \* body.signature of the list request
      error |-> "none",         \* the error thrown inside the invocation
      trace |-> << <<"call", "enable">> >>,  \* calls issued and their outcomes
      toasts |-> <<>> ]         \* toastError calls made by the invocation

Inv(i) == invs[i]

InFlight(i) == Inv(i).pc # "done"

Awaiting(i, call) == i \in 1..Len(invs) /\ Inv(i).pc = call

\* ------------------------------------------------------------- the view
\* {!walletInfo && !multisigs ? <Button onClick={connectWallet} ...>}
ButtonRendered == walletInfo = Null /\ multisigs = Null

\* disabled={loading}
ButtonEnabled == ButtonRendered /\ ~loading

\* {walletInfo && !multisigs ? "Loading multisigs"}
SpinnerRendered == walletInfo # Null /\ multisigs = Null

\* A Switch offered whenever the two lists differ in content.
ToggleOffered_byContent ==
    /\ multisigs # Null
    /\ (Len(multisigs[1].created) # 0 \/ Len(multisigs[1].belonged) # 0)
    /\ multisigs[1].created # multisigs[1].belonged

\* multisigs?.created.length || multisigs?.belonged.length, then
\* created.length !== belonged.length: the Switch is rendered.
ToggleOffered ==
    /\ multisigs # Null
    /\ (Len(multisigs[1].created) # 0 \/ Len(multisigs[1].belonged) # 0)
    /\ Len(multisigs[1].created) # Len(multisigs[1].belonged)

\* showBelonged ? multisigs.belonged : multisigs.created
DisplayedSet == IF showBelonged THEN multisigs[1].belonged ELSE multisigs[1].created

\* The guard of the layout effect: it returns early on !walletInfo?.address
\* and registers connectWallet for keplr_keystorechange otherwise.
LayoutEffect(w) == w # Null /\ w[1].address # ""

\* An effect that returns no cleanup.
Cleanup_missing(w) == 0

\* The registrations the cleanup returned by the effect removes: the effect
\* returns a cleanup only when it registered.
Cleanup(w) == IF LayoutEffect(w) THEN 1 ELSE 0

\* The dependency walletInfo?.address of the effect (connectWallet, the
\* other one, keeps its identity while the chain does not change).
EffectDeps(w) == IF w = Null THEN "" ELSE w[1].address

\* A state update of a mounted component is rendered; an update of a
\* discarded component is dropped.
SetState(old, new) == IF mounted THEN new ELSE old

\* The render that commits the updates of a continuation: when a
\* dependency of the layout effect has changed, the previous cleanup runs
\* and then the effect.
Commit ==
    listener' =
        IF mounted /\ EffectDeps(walletInfo') # EffectDeps(walletInfo)
        THEN listener - Cleanup(walletInfo) + (IF LayoutEffect(walletInfo') THEN 1 ELSE 0)
        ELSE listener

\* ---------------------------------------------------------- connectWallet
\* connectWallet behind a single-flight guard: an entry while loading is
\* true returns at once.
ConnectWalletEnter_singleFlight(trigger) ==
    /\ Len(invs) < MaxInv
    /\ IF loading
       THEN UNCHANGED <<loading, invs>>
       ELSE /\ loading' = SetState(loading, TRUE)
            /\ invs' = Append(invs, NewInvocation(trigger))
    /\ UNCHANGED <<walletInfo, showBelonged, multisigs, mounted, defaultOptions,
                   nonces, writer>>
    /\ Commit

\* Entry of connectWallet up to its first await: setLoading(true) and the
\* call of keplr.enable.
ConnectWalletEnter(trigger) ==
    /\ Len(invs) < MaxInv
    /\ loading' = SetState(loading, TRUE)
    /\ invs' = Append(invs, NewInvocation(trigger))
    /\ UNCHANGED <<walletInfo, showBelonged, multisigs, mounted, defaultOptions,
                   nonces, writer>>
    /\ Commit

\* onClick={connectWallet} of the "Verify identity" button.
ClickConnect ==
    /\ mounted
    /\ ButtonEnabled
    /\ ConnectWalletEnter("click")
    /\ UNCHANGED <<events, keplrAccount>>

\* The user selects another account in the agent, which dispatches
\* keplr_keystorechange on window: connectWallet runs if it is registered,
\* and nothing happens otherwise.
KeystoreChange ==
    /\ events < MaxEvents
    /\ events' = events + 1
    /\ keplrAccount' \in Addrs \ {keplrAccount}
    /\ IF listener > 0
       THEN ConnectWalletEnter("event")
       ELSE UNCHANGED <<loading, walletInfo, showBelonged, multisigs, listener,
                        mounted, defaultOptions, invs, nonces, writer>>

\* connectWallet's catch block without the finally block: loading stays.
ConnectWalletCatch_noFinally(i) ==
    /\ i \in 1..Len(invs)
    /\ Inv(i).pc \in ConnectCalls
    /\ invs' = [invs EXCEPT ![i] =
           [@ EXCEPT !.pc = "done",
                     !.error = ErrorOf(Inv(i).pc),
                     !.trace = Append(@, <<"err", Inv(i).pc>>),
                     !.toasts = Append(@, [by |-> "connectWallet",
                                           error |-> ErrorOf(Inv(i).pc)])]]
    /\ UNCHANGED <<loading, walletInfo, showBelonged, multisigs, mounted,
                   defaultOptions, keplrAccount, nonces, events, writer>>
    /\ Commit

\* The catch and finally blocks of connectWallet, entered when enable or
\* getKey rejects: one toast, then setLoading(false).
ConnectWalletCatch(i) ==
    /\ i \in 1..Len(invs)
    /\ Inv(i).pc \in ConnectCalls
    /\ invs' = [invs EXCEPT ![i] =
           [@ EXCEPT !.pc = "done",
                     !.error = ErrorOf(Inv(i).pc),
                     !.trace = Append(@, <<"err", Inv(i).pc>>),
                     !.toasts = Append(@, [by |-> "connectWallet",
                                           error |-> ErrorOf(Inv(i).pc)])]]
    /\ loading' = SetState(loading, FALSE)
    /\ UNCHANGED <<walletInfo, showBelonged, multisigs, mounted, defaultOptions,
                   keplrAccount, nonces, events, writer>>
    /\ Commit

\* keplr.enable resolves: defaultOptions is assigned and getKey is called.
EnableReturns(i) ==
    /\ Awaiting(i, "enable")
    /\ defaultOptions' = TRUE
    /\ invs' = [invs EXCEPT ![i] =
           [@ EXCEPT !.pc = "getKey",
                     !.trace = @ \o << <<"ok", "enable">>, <<"call", "getKey">> >>]]
    /\ UNCHANGED <<loading, walletInfo, showBelonged, multisigs, mounted,
                   keplrAccount, nonces, events, writer>>
    /\ Commit

\* keplr.getKey resolves with the account selected in the agent:
\* setWalletInfo({address, pubKey}), then fetchMultisigs(address) runs into
\* getSignature up to StargateClient.connect.
GetKeyReturns(i) ==
    /\ Awaiting(i, "getKey")
    /\ walletInfo' = SetState(walletInfo,
           Some([address |-> keplrAccount,
                 pubKey |-> toBase64(PubKeyArrayOf(keplrAccount))]))
    /\ invs' = [invs EXCEPT ![i] =
           [@ EXCEPT !.pc = "connect",
                     !.address = keplrAccount,
                     !.trace = @ \o << <<"ok", "getKey">>, <<"call", "connect">> >>]]
    /\ UNCHANGED <<loading, showBelonged, multisigs, mounted, defaultOptions,
                   keplrAccount, nonces, events, writer>>
    /\ Commit

\* --------------------------------------------------------- fetchMultisigs
\* fetchMultisigs' catch block also dropping the identity
\* (setWalletInfo(null)).
FetchMultisigsCatch_clearsIdentity(i, outcome, e) ==
    /\ i \in 1..Len(invs)
    /\ Inv(i).pc \in FetchCalls
    /\ invs' = [invs EXCEPT ![i] =
           [@ EXCEPT !.pc = "done",
                     !.error = e,
                     !.trace = Append(@, <<outcome, Inv(i).pc>>),
                     !.toasts = Append(@, [by |-> "fetchMultisigs", error |-> e])]]
    /\ loading' = SetState(loading, FALSE)
    /\ walletInfo' = SetState(walletInfo, Null)
    /\ UNCHANGED <<showBelonged, multisigs, mounted, defaultOptions,
                   keplrAccount, nonces, events, writer>>
    /\ Commit

\* fetchMultisigs' catch block also dropping the lists (setMultisigs(null)).
FetchMultisigsCatch_clearsMultisigs(i, outcome, e) ==
    /\ i \in 1..Len(invs)
    /\ Inv(i).pc \in FetchCalls
    /\ invs' = [invs EXCEPT ![i] =
           [@ EXCEPT !.pc = "done",
                     !.error = e,
                     !.trace = Append(@, <<outcome, Inv(i).pc>>),
                     !.toasts = Append(@, [by |-> "fetchMultisigs", error |-> e])]]
    /\ loading' = SetState(loading, FALSE)
    /\ multisigs' = SetState(multisigs, Null)
    /\ UNCHANGED <<walletInfo, showBelonged, mounted, defaultOptions,
                   keplrAccount, nonces, events, writer>>
    /\ Commit

\* fetchMultisigs' catch block rethrowing after its toast: the error
\* reaches connectWallet's catch block, which reports it again.
FetchMultisigsCatch_rethrows(i, outcome, e) ==
    /\ i \in 1..Len(invs)
    /\ Inv(i).pc \in FetchCalls
    /\ invs' = [invs EXCEPT ![i] =
           [@ EXCEPT !.pc = "done",
                     !.error = e,
                     !.trace = Append(@, <<outcome, Inv(i).pc>>),
                     !.toasts = @ \o << [by |-> "fetchMultisigs", error |-> e],
                                        [by |-> "connectWallet", error |-> e] >>]]
    /\ loading' = SetState(loading, FALSE)
    /\ UNCHANGED <<walletInfo, showBelonged, multisigs, mounted, defaultOptions,
                   keplrAccount, nonces, events, writer>>
    /\ Commit

\* The catch block of fetchMultisigs, entered with error e while the
\* invocation awaits a call of getSignature or the list request: one toast;
\* fetchMultisigs then returns normally into connectWallet's finally block,
\* which does setLoading(false).
FetchMultisigsCatch(i, outcome, e) ==
    /\ i \in 1..Len(invs)
    /\ Inv(i).pc \in FetchCalls
    /\ invs' = [invs EXCEPT ![i] =
           [@ EXCEPT !.pc = "done",
                     !.error = e,
                     !.trace = Append(@, <<outcome, Inv(i).pc>>),
                     !.toasts = Append(@, [by |-> "fetchMultisigs", error |-> e])]]
    /\ loading' = SetState(loading, FALSE)
    /\ UNCHANGED <<walletInfo, showBelonged, multisigs, mounted, defaultOptions,
                   keplrAccount, nonces, events, writer>>
    /\ Commit

\* A rejected call that is issued once more before the error is given up on.
FetchCallFails_retries(i) ==
    /\ i \in 1..Len(invs)
    /\ Inv(i).pc \in FetchCalls
    /\ IF \E k \in 1..Len(Inv(i).trace) : Inv(i).trace[k][1] = "err"
       THEN FetchMultisigsCatch(i, "err", ErrorOf(Inv(i).pc))
       ELSE /\ invs' = [invs EXCEPT ![i] =
                   [@ EXCEPT !.trace = @ \o << <<"err", Inv(i).pc>>,
                                              <<"call", Inv(i).pc>> >>]]
            /\ UNCHANGED <<loading, walletInfo, showBelonged, multisigs, mounted,
                           defaultOptions, keplrAccount, nonces, events, writer>>
            /\ Commit

\* An awaited call of getSignature or the list request rejects.
FetchCallFails(i) ==
    /\ i \in 1..Len(invs)
    /\ Inv(i).pc \in FetchCalls
    /\ FetchMultisigsCatch(i, "err", ErrorOf(Inv(i).pc))

\* StargateClient.connect resolves: client.getAccount(address) is called.
ConnectNodeReturns(i) ==
    /\ Awaiting(i, "connect")
    /\ invs' = [invs EXCEPT ![i] =
           [@ EXCEPT !.pc = "getAccount",
                     !.trace = @ \o << <<"ok", "connect">>, <<"call", "getAccount">> >>]]
    /\ UNCHANGED <<loading, walletInfo, showBelonged, multisigs, mounted,
                   defaultOptions, keplrAccount, nonces, events, writer>>
    /\ Commit

\* getSignature with the nonce request not awaited: signAmino is called
\* while the nonce request is still pending.
GetAccountReturns_noAwait(i) ==
    /\ Awaiting(i, "getAccount")
    /\ invs' = [invs EXCEPT ![i] =
           [@ EXCEPT !.pc = "signAmino",
                     !.accountOnChain = Inv(i).address,
                     !.trace = @ \o << <<"ok", "getAccount">>, <<"call", "nonce">>,
                                       <<"call", "signAmino">> >>]]
    /\ UNCHANGED <<loading, walletInfo, showBelonged, multisigs, mounted,
                   defaultOptions, keplrAccount, nonces, events, writer>>
    /\ Commit

\* client.getAccount resolves with the account of the address: the nonce
\* is requested for accountOnChain.address.
GetAccountReturns(i) ==
    /\ Awaiting(i, "getAccount")
    /\ invs' = [invs EXCEPT ![i] =
           [@ EXCEPT !.pc = "nonce",
                     !.accountOnChain = Inv(i).address,
                     !.trace = @ \o << <<"ok", "getAccount">>, <<"call", "nonce">> >>]]
    /\ UNCHANGED <<loading, walletInfo, showBelonged, multisigs, mounted,
                   defaultOptions, keplrAccount, nonces, events, writer>>
    /\ Commit

\* client.getAccount resolves with null: if (!accountOnChain) throw.
GetAccountReturnsNull(i) ==
    /\ Awaiting(i, "getAccount")
    /\ FetchMultisigsCatch(i, "ok", "AccountNotFound")

\* The nonce the backend issues to the request of invocation i: nonces are
\* opaque and no two requests are answered with the same one.
NonceFor(i) == i

\* getSignature asking for a second nonce after the first has arrived.
NonceReturns_requestsTwice(i) ==
    /\ Awaiting(i, "nonce")
    /\ nonces' = nonces + 1
    /\ invs' = [invs EXCEPT ![i] =
           IF \E k \in 1..Len(Inv(i).trace) : Inv(i).trace[k] = <<"ok", "nonce">>
           THEN [@ EXCEPT !.pc = "signAmino",
                          !.nonce = NonceFor(i),
                          !.trace = @ \o << <<"ok", "nonce">>, <<"call", "signAmino">> >>]
           ELSE [@ EXCEPT !.trace = @ \o << <<"ok", "nonce">>, <<"call", "nonce">> >>]]
    /\ UNCHANGED <<loading, walletInfo, showBelonged, multisigs, mounted,
                   defaultOptions, keplrAccount, events, writer>>
    /\ Commit

\* The nonce request resolves: the sign doc is built around the nonce and
\* keplr.signAmino is called.
NonceReturns(i) ==
    /\ Awaiting(i, "nonce")
    /\ nonces' = nonces + 1
    /\ invs' = [invs EXCEPT ![i] =
           [@ EXCEPT !.pc = "signAmino",
                     !.nonce = NonceFor(i),
                     !.trace = @ \o << <<"ok", "nonce">>, <<"call", "signAmino">> >>]]
    /\ UNCHANGED <<loading, walletInfo, showBelonged, multisigs, mounted,
                   defaultOptions, keplrAccount, events, writer>>
    /\ Commit

\* The signature the agent makes with the key of signer over the
\* sign/MsgSignData document that carries the nonce.
SignAmino(signer, nonce) == [signer |-> signer, data |-> toBase64(<<nonce>>)]

\* A sign doc built around the nonce of the first invocation instead of
\* the invocation's own.
SignAminoReturns_staleNonce(i) ==
    /\ Awaiting(i, "signAmino")
    /\ invs' = [invs EXCEPT ![i] =
           [@ EXCEPT !.pc = "list",
                     !.signature = Some(SignAmino(Inv(i).accountOnChain, Inv(1).nonce)),
                     !.sent = Some(SignAmino(Inv(i).accountOnChain, Inv(1).nonce)),
                     !.trace = @ \o << <<"ok", "signAmino">>, <<"call", "list">> >>]]
    /\ UNCHANGED <<loading, walletInfo, showBelonged, multisigs, mounted,
                   defaultOptions, keplrAccount, nonces, events, writer>>
    /\ Commit

\* keplr.signAmino resolves: getSignature returns the signature and the
\* list request is sent with body {signature, chain}.
SignAminoReturns(i) ==
    /\ Awaiting(i, "signAmino")
    /\ invs' = [invs EXCEPT ![i] =
           [@ EXCEPT !.pc = "list",
                     !.signature = Some(SignAmino(Inv(i).accountOnChain, Inv(i).nonce)),
                     !.sent = Some(SignAmino(Inv(i).accountOnChain, Inv(i).nonce)),
                     !.trace = @ \o << <<"ok", "signAmino">>, <<"call", "list">> >>]]
    /\ UNCHANGED <<loading, walletInfo, showBelonged, multisigs, mounted,
                   defaultOptions, keplrAccount, nonces, events, writer>>
    /\ Commit

\* fetchMultisigs polling: it stores each response and sends the list
\* request again.
ListReturns_polls(i, newMultisigs) ==
    /\ Awaiting(i, "list")
    /\ multisigs' = SetState(multisigs, Some(newMultisigs))
    /\ writer' = SetState(writer, i)
    /\ UNCHANGED <<loading, invs, walletInfo, showBelonged, mounted, defaultOptions,
                   keplrAccount, nonces, events>>
    /\ Commit

\* The list request resolves with newMultisigs: setMultisigs(newMultisigs),
\* then connectWallet's finally block does setLoading(false).
ListReturns(i, newMultisigs) ==
    /\ Awaiting(i, "list")
    /\ multisigs' = SetState(multisigs, Some(newMultisigs))
    /\ writer' = SetState(writer, i)
    /\ loading' = SetState(loading, FALSE)
    /\ invs' = [invs EXCEPT ![i] =
           [@ EXCEPT !.pc = "done",
                     !.trace = Append(@, <<"ok", "list">>)]]
    /\ UNCHANGED <<walletInfo, showBelonged, mounted, defaultOptions, keplrAccount,
                   nonces, events>>
    /\ Commit

\* ---------------------------------------------------------------- view
\* A Switch whose handler also marks the lists for loading again
\* (setMultisigs(null)).
ToggleShowBelonged_refetches ==
    /\ mounted
    /\ ToggleOffered
    /\ showBelonged' = ~showBelonged
    /\ multisigs' = Null
    /\ UNCHANGED <<loading, walletInfo, mounted, defaultOptions,
                   keplrAccount, invs, nonces, events, writer>>
    /\ Commit

\* onCheckedChange of the Switch: setShowBelonged(checked).
ToggleShowBelonged ==
    /\ mounted
    /\ ToggleOffered
    /\ showBelonged' = ~showBelonged
    /\ UNCHANGED <<loading, walletInfo, multisigs, mounted, defaultOptions,
                   keplrAccount, invs, nonces, events, writer>>
    /\ Commit

\* The component is discarded: the effect's cleanup removes the listener
\* and the component's state goes with it (invocations in flight run on,
\* their state updates are dropped).
Unmount ==
    /\ mounted
    /\ mounted' = FALSE
    /\ listener' = listener - Cleanup(walletInfo)
    /\ loading' = FALSE
    /\ walletInfo' = Null
    /\ showBelonged' = FALSE
    /\ multisigs' = Null
    /\ writer' = 0
    /\ UNCHANGED <<defaultOptions, keplrAccount, invs, nonces, events>>

\* ------------------------------------------------------- specification
Init ==
    /\ loading = FALSE
    /\ walletInfo = Null
    /\ showBelonged = FALSE
    /\ multisigs = Null
    /\ listener = 0
    /\ mounted = TRUE
    /\ defaultOptions = FALSE
    /\ keplrAccount = "cosmos1a"
    /\ invs = <<>>
    /\ nonces = 0
    /\ events = 0
    /\ writer = 0

Next ==
    \/ ClickConnect
    \/ KeystoreChange
    \/ \E i \in 1..Len(invs) : EnableReturns(i)
    \/ \E i \in 1..Len(invs) : ConnectWalletCatch(i)
    \/ \E i \in 1..Len(invs) : GetKeyReturns(i)
    \/ \E i \in 1..Len(invs) : ConnectNodeReturns(i)
    \/ \E i \in 1..Len(invs) : GetAccountReturns(i)
    \/ \E i \in 1..Len(invs) : GetAccountReturnsNull(i)
    \/ \E i \in 1..Len(invs) : NonceReturns(i)
    \/ \E i \in 1..Len(invs) : SignAminoReturns(i)
    \/ \E i \in 1..Len(invs) : \E r \in FetchedMultisigs : ListReturns(i, r)
    \/ \E i \in 1..Len(invs) : FetchCallFails(i)
    \/ ToggleShowBelonged
    \/ Unmount

Spec == Init /\ [][Next]_vars

\* The call invocation i awaits resolves or rejects.
Completes(i) ==
    \/ EnableReturns(i)
    \/ ConnectWalletCatch(i)
    \/ GetKeyReturns(i)
    \/ ConnectNodeReturns(i)
    \/ GetAccountReturns(i)
    \/ GetAccountReturnsNull(i)
    \/ NonceReturns(i)
    \/ SignAminoReturns(i)
    \/ \E r \in FetchedMultisigs : ListReturns(i, r)
    \/ FetchCallFails(i)

\* The behaviours in which no external call stays pending forever.
FairSpec == Spec /\ \A i \in 1..MaxInv : WF_vars(Completes(i))

\* ------------------------------------------------------------ properties
InvIds == 1..Len(invs)

Quiescent == \A i \in InvIds : ~InFlight(i)

Succeeded(i) == Inv(i).pc = "done" /\ Inv(i).error = "none"

Failed(i) == Inv(i).error # "none"

LastOf(seq) == seq[Len(seq)]

\* The calls an invocation has issued, in the order it issued them.
IsCall(e) == e[1] = "call"

Issued(i) == SelectSeq(Inv(i).trace, IsCall)

HasIssued(i, call) == \E k \in 1..Len(Inv(i).trace) : Inv(i).trace[k] = <<"call", call>>

\* The identity setWalletInfo stores for an address.
IdentityOf(address) ==
    Some([address |-> address, pubKey |-> toBase64(PubKeyArrayOf(address))])

\* Invocation i fails in this step while awaiting one of the calls in set.
FailsIn(i, set) ==
    /\ i \in DOMAIN invs'
    /\ Inv(i).pc \in set
    /\ invs'[i].pc = "done"
    /\ invs'[i].error # "none"

\* C1: once every invocation has completed, the session state holds the
\* result of the latest-triggered invocation (here: when that invocation
\* succeeded, multisigs was written by it and walletInfo is its identity).
C1_LatestInvocationWins ==
    (mounted /\ invs # <<>> /\ Quiescent /\ Succeeded(Len(invs)))
        => (writer = Len(invs) /\ walletInfo = IdentityOf(Inv(Len(invs)).address))

\* C2: after a failure the user-initiated connect action is available
\* again: when the latest invocation has failed and nothing is in flight,
\* the "Verify identity" button is rendered and enabled.
C2_RetryAvailableAfterFailure ==
    (mounted /\ invs # <<>> /\ Quiescent /\ Failed(Len(invs))) => ButtonEnabled

\* C3 (as stated): after an invocation whose account resolution returned
\* nothing, no nonce, signature or list request was made, a failure was
\* reported, and walletInfo is null.
C3_IdentityNullAfterAccountNotFound ==
    \A i \in InvIds :
        (mounted /\ Inv(i).error = "AccountNotFound") =>
            /\ ~HasIssued(i, "nonce") /\ ~HasIssued(i, "signAmino") /\ ~HasIssued(i, "list")
            /\ Len(Inv(i).toasts) = 1
            /\ walletInfo = Null

\* C3 (amended): after an invocation whose account resolution returned
\* nothing, the calls it issued are enable, getKey, connect and getAccount
\* and no other, it reported exactly one failure (AccountNotFound), and
\* walletInfo is not null: it holds an identity obtained from getKey, the
\* invocation's own when no other invocation has obtained one.
C3_AccountNotFound ==
    \A i \in InvIds :
        Inv(i).error = "AccountNotFound" =>
            /\ Issued(i) = << <<"call", "enable">>, <<"call", "getKey">>,
                              <<"call", "connect">>, <<"call", "getAccount">> >>
            /\ Inv(i).nonce = 0 /\ Inv(i).signature = Null /\ Inv(i).sent = Null
            /\ Inv(i).toasts = << [by |-> "fetchMultisigs", error |-> "AccountNotFound"] >>
            /\ Inv(i).pc = "done"
            /\ mounted =>
                 /\ walletInfo # Null
                 /\ \E j \in InvIds : walletInfo = IdentityOf(Inv(j).address)
                 /\ (\A j \in InvIds \ {i} : Inv(j).address = "")
                        => walletInfo = IdentityOf(Inv(i).address)

C3_Witness ==
    \E i \in InvIds : mounted /\ Inv(i).error = "AccountNotFound" /\ walletInfo # Null

\* The render of the displayed list throws: JSON.parse of a row's
\* pubkeyJSON raises a SyntaxError.
RenderThrows ==
    /\ multisigs # Null
    /\ (Len(multisigs[1].created) # 0 \/ Len(multisigs[1].belonged) # 0)
    /\ \E k \in 1..Len(DisplayedSet) : JSONparse(DisplayedSet[k].pubkeyJSON) = Null

WellFormed(list) ==
    \A k \in 1..Len(list) :
        /\ JSONparse(list[k].pubkeyJSON) # Null
        /\ JSONparse(list[k].pubkeyJSON)[1].threshold <= JSONparse(list[k].pubkeyJSON)[1].pubkeys

\* C4: the fetch is all-or-nothing, so every entry of a stored multisigs
\* parses and has threshold <= members.
C4_StoredMultisigsWellFormed ==
    multisigs # Null => (WellFormed(multisigs[1].created) /\ WellFormed(multisigs[1].belonged))

\* C5: within one invocation the calls are issued in the order enable,
\* getKey, connect, getAccount, nonce, signAmino, list, each at most once,
\* and each only right after its predecessor resolved.
C5_CallsStrictlySequential ==
    \A i \in InvIds :
        /\ Len(Issued(i)) <= Len(CallOrder)
        /\ \A k \in 1..Len(Issued(i)) : Issued(i)[k] = <<"call", CallOrder[k]>>
        /\ Inv(i).trace[1] = <<"call", "enable">>
        /\ \A k \in 2..Len(Inv(i).trace) :
               Inv(i).trace[k][1] = "call" =>
                   \E n \in 2..Len(CallOrder) :
                       /\ Inv(i).trace[k] = <<"call", CallOrder[n]>>
                       /\ Inv(i).trace[k - 1] = <<"ok", CallOrder[n - 1]>>
        /\ InFlight(i) => LastOf(Inv(i).trace) = <<"call", Inv(i).pc>>

C5_Witness ==
    \E i \in InvIds : Succeeded(i) /\ Len(Issued(i)) = Len(CallOrder)

\* C6: a failure is terminal for its invocation: a failed call is the last
\* entry of the invocation's trace, the invocation is done, and no call was
\* issued twice; after a failed nonce request neither signAmino nor the
\* list request was issued.
C6_FailureIsTerminal ==
    \A i \in InvIds :
        /\ \A k \in 1..Len(Inv(i).trace) :
               Inv(i).trace[k][1] = "err" => (k = Len(Inv(i).trace) /\ Inv(i).pc = "done")
        /\ Failed(i) => Inv(i).pc = "done"
        /\ \A k, l \in 1..Len(Issued(i)) : Issued(i)[k] = Issued(i)[l] => k = l
        /\ LastOf(Inv(i).trace) = <<"err", "nonce">> =>
               /\ ~HasIssued(i, "signAmino") /\ ~HasIssued(i, "list")
               /\ Inv(i).signature = Null /\ Inv(i).sent = Null

C6_Witness ==
    \E i \in InvIds : LastOf(Inv(i).trace) = <<"err", "nonce">> /\ Inv(i).pc = "done"

\* C7: every keystore-change notification dispatched while the listener is
\* registered enters connectWallet: a new invocation awaiting enable is
\* added, whatever loading is and whatever is in flight.
C7_EveryNotificationStartsInvocation ==
    [][(events' = events + 1 /\ listener > 0) =>
          /\ invs' = Append(invs, NewInvocation("event"))
          /\ (mounted => loading')]_vars

C7_Witness ==
    /\ Len(invs) >= 2
    /\ Inv(2).trigger = "event" /\ Inv(2).pc = "enable"
    /\ InFlight(1)
    /\ loading

\* C8: the listener is registered exactly while the component is mounted
\* and walletInfo has an address, it is never registered twice, and a
\* notification dispatched while walletInfo is null starts no invocation.
C8_SubscriptionScopedToIdentity ==
    /\ [](/\ listener \in {0, 1}
          /\ (listener = 1) <=> (mounted /\ LayoutEffect(walletInfo)))
    /\ [][(events' = events + 1 /\ walletInfo = Null) => invs' = invs]_vars

C8_Witness ==
    /\ events >= 1
    /\ \A i \in InvIds : Inv(i).trigger = "click"
    /\ listener = 1

\* C9: when an invocation fails after getKey succeeded (at connect,
\* getAccount, nonce, signAmino or list), the failing step leaves walletInfo
\* and multisigs as they were, walletInfo holds an identity (the
\* invocation's own when no other invocation has obtained one), and the
\* invocation has not written multisigs.
C9_IdentityRetainedOnFetchFailure ==
    [][\A i \in InvIds :
          FailsIn(i, FetchCalls) =>
              /\ walletInfo' = walletInfo
              /\ multisigs' = multisigs
              /\ writer' = writer /\ writer # i
              /\ mounted =>
                   /\ walletInfo' # Null
                   /\ (\A j \in InvIds \ {i} : Inv(j).address = "")
                          => walletInfo' = IdentityOf(Inv(i).address)]_vars

C9_Witness ==
    \E i \in InvIds :
        /\ mounted
        /\ Failed(i) /\ LastOf(Inv(i).trace)[2] \in FetchCalls
        /\ walletInfo = IdentityOf(Inv(i).address)
        /\ multisigs # Null

\* C10: when enable or getKey fails, the failing step leaves walletInfo and
\* multisigs as they were, reports one failure and sets loading to false;
\* with no identity held the "Verify identity" button is enabled again.
C10_ConnectFailureRestoresUnauthenticated ==
    [][\A i \in InvIds :
          FailsIn(i, ConnectCalls) =>
              /\ walletInfo' = walletInfo
              /\ multisigs' = multisigs
              /\ Len(invs'[i].toasts) = 1 /\ Inv(i).toasts = <<>>
              /\ mounted => ~loading'
              /\ (mounted /\ walletInfo = Null) => ButtonEnabled']_vars

C10_Witness ==
    \E i \in InvIds :
        /\ mounted
        /\ Failed(i) /\ LastOf(Inv(i).trace)[2] \in ConnectCalls
        /\ ButtonEnabled

\* C11: an invocation reports exactly one failure when it fails, at
\* whatever step, and none while it runs or when every step succeeded.
C11_OneToastPerFailure ==
    \A i \in InvIds :
        /\ Failed(i) => Len(Inv(i).toasts) = 1
        /\ ~Failed(i) => Inv(i).toasts = <<>>
        /\ \A k \in 1..Len(Inv(i).toasts) : Inv(i).toasts[k].error = Inv(i).error

C11_Witness ==
    \E i, j \in InvIds :
        /\ Failed(i) /\ LastOf(Inv(i).trace)[2] \in FetchCalls /\ Len(Inv(i).toasts) = 1
        /\ Succeeded(j) /\ Inv(j).toasts = <<>>

\* C12: whenever multisigs is loaded with as many created as belonged
\* entries, the Switch is not rendered and the displayed list is created.
C12_EqualCountsShowCreated ==
    (mounted /\ multisigs # Null
        /\ Len(multisigs[1].created) = Len(multisigs[1].belonged))
        => (~ToggleOffered /\ DisplayedSet = multisigs[1].created)

\* C13: the Switch is rendered exactly when multisigs is loaded and the two
\* lists differ in length, whatever they contain.
C13_ToggleIffCountsDiffer ==
    ToggleOffered <=>
        (multisigs # Null /\ Len(multisigs[1].created) # Len(multisigs[1].belonged))

\* Exactly one list is empty and the Switch is rendered.
C13_Witness ==
    /\ mounted
    /\ ToggleOffered
    /\ Len(multisigs[1].created) = 0
    /\ Len(multisigs[1].belonged) # 0

\* C14: a step of a mounted component that changes showBelonged changes
\* nothing else: walletInfo, multisigs and loading stay, no invocation
\* starts or moves, no nonce is issued, and the displayed list goes from
\* one list of the same multisigs to the other.
C14_ToggleChangesOnlyShowBelonged ==
    [][(mounted' /\ showBelonged' # showBelonged) =>
          /\ UNCHANGED <<walletInfo, multisigs, loading, invs, nonces, writer,
                         listener, defaultOptions>>
          /\ DisplayedSet # DisplayedSet'
          /\ {DisplayedSet, DisplayedSet'} = {multisigs[1].created, multisigs[1].belonged}]_vars

C14_Witness ==
    /\ mounted
    /\ showBelonged
    /\ ToggleOffered
    /\ DisplayedSet = multisigs[1].belonged

IsNonceCall(e) == e = <<"call", "nonce">>

\* The nonce requests invocation i has issued.
NonceCalls(i) == Len(SelectSeq(Inv(i).trace, IsNonceCall))

\* getSignature of invocation i has been entered and has returned or thrown.
SignStepOver(i) == HasIssued(i, "connect") /\ Inv(i).pc \in {"list", "done"}

\* Invocation i moves in this step from one await of getSignature to the
\* next, or out of getSignature with the signature.
StepsInGetSignature(i) ==
    /\ Inv(i).pc \in SignCalls
    /\ invs'[i] # invs[i]
    /\ invs'[i].pc \in SignCalls \cup {"list"}

\* C15 (as stated): every invocation of getSignature has issued exactly
\* one nonce request by the time it is over.
C15_ExactlyOneNonceRequest ==
    \A i \in InvIds : SignStepOver(i) => NonceCalls(i) = 1

\* C15 (amended): an invocation of getSignature issues at most one nonce
\* request: exactly one once account resolution has returned an account,
\* none when StargateClient.connect or getAccount failed or returned
\* nothing; and no step of getSignature changes walletInfo, multisigs,
\* loading or showBelonged.
C15_AtMostOneNonceRequest ==
    /\ [](\A i \in InvIds :
            /\ NonceCalls(i) <= 1
            /\ NonceCalls(i) = 1 <=> Inv(i).accountOnChain # ""
            /\ (SignStepOver(i) /\ NonceCalls(i) = 0)
                   => LastOf(Inv(i).trace) \in { <<"err", "connect">>,
                                                 <<"err", "getAccount">>,
                                                 <<"ok", "getAccount">> }
            /\ Inv(i).signature # Null => NonceCalls(i) = 1)
    /\ [][\A i \in InvIds :
             StepsInGetSignature(i) =>
                 UNCHANGED <<walletInfo, multisigs, loading, showBelonged>>]_vars

C15_Witness ==
    \E i, j \in InvIds :
        /\ Inv(i).signature # Null /\ NonceCalls(i) = 1
        /\ SignStepOver(j) /\ NonceCalls(j) = 0

\* C16: the signature an invocation sends in its list request is the one
\* the agent returned to it, made for the address it resolved over the
\* nonce issued to it; no two invocations send the same signature.
C16_SignaturePairing ==
    \A i \in InvIds :
        /\ HasIssued(i, "list") <=> Inv(i).sent # Null
        /\ Inv(i).sent # Null => Inv(i).sent = Inv(i).signature
        /\ Inv(i).signature # Null =>
               /\ Inv(i).signature = Some(SignAmino(Inv(i).accountOnChain, Inv(i).nonce))
               /\ Inv(i).nonce = NonceFor(i)
               /\ Inv(i).accountOnChain = Inv(i).address
               /\ Inv(i).address \in Addrs
        /\ \A j \in InvIds \ {i} :
               Inv(i).sent # Null => Inv(j).sent # Inv(i).sent

\* Two invocations with their list requests pending at once.
C16_Witness ==
    \E i, j \in InvIds :
        /\ i # j
        /\ Inv(i).pc = "list" /\ Inv(j).pc = "list"
        /\ Inv(i).address # Inv(j).address

\* C17: whenever nothing is in flight and multisigs is loaded, it was
\* fetched by an invocation whose address is the one in walletInfo.
C17_MultisigsBelongToIdentity ==
    (mounted /\ Quiescent /\ multisigs # Null)
        => (writer \in InvIds /\ walletInfo = IdentityOf(Inv(writer).address))

\* C18: loading is true exactly while some invocation is in flight.
C18_LoadingIffInFlight ==
    mounted => (loading <=> \E i \in InvIds : InFlight(i))

\* C19: when no external call stays pending forever, no invocation stays in
\* flight forever (at every moment each one is done, or will be done later);
\* and whenever none is in flight, loading is false.
C19_InvocationsTerminate ==
    /\ \A i \in 1..MaxInv : []<>~(i \in InvIds /\ InFlight(i))
    /\ [](Quiescent => ~loading)

C19_Witness ==
    /\ mounted
    /\ Len(invs) >= 2
    /\ Quiescent
    /\ ~loading
    /\ \E i \in InvIds : Succeeded(i)

====
